---- MODULE Spec2Model ----
(***************************************************************************)
(* Model of src/app.py: a Streamlit page whose session state holds the     *)
(* conversation history, the database handle and the theme.  One script    *)
(* run handles one user event (Connect, Send, Toggle Theme, plain rerun).  *)
(* A Send turn is modelled step by step, one step per external call of    *)
(* the LangChain pipeline built in get_response, because the claims are    *)
(* about the order of those calls and about where a failure leaves the     *)
(* session.                                                                *)
(***************************************************************************)
EXTENDS Integers, Sequences, FiniteSets, TLC

VARIABLES
    chat_history,      \* st.session_state.chat_history
    db,                \* st.session_state.db (NoDb: the key was never set)
    theme,             \* st.session_state.theme
    user_query,        \* the text area's widget state (key "user_query")
    shown,             \* what the page shows after the last script run
    handles,           \* number of SQLDatabase objects created so far
    pc,                \* position of the running script
    attempts,          \* per turn: how often each pipeline step was issued
    query,             \* vars["query"]: the SQL text returned by sql_chain
    schemaT,           \* state of the worker running schema=db.get_table_info()
    runT,              \* state of the worker running response=db.run(query)
    executed,          \* the SQL text handed to db.run
    response,          \* vars["response"]
    prompt,            \* the variables formatted into the composition prompt
    raw_response,      \* get_response's raw_response
    cleaned_response   \* get_response's cleaned_response

vars == <<chat_history, db, theme, user_query, shown, handles, pc, attempts,
          query, schemaT, runT, executed, response, prompt, raw_response,
          cleaned_response>>

session == <<chat_history, db, theme, user_query, shown, handles>>
locals == <<attempts, query, schemaT, runT, executed, response, prompt,
            raw_response, cleaned_response>>

----------------------------------------------------------------------------
(* Bounds of the model *)

MaxRawLen == 3
MaxQuestionLen == 1
MaxHistory == 4
MaxConnects == 2

----------------------------------------------------------------------------
(* Text: a Python str is a sequence of characters *)

Period == "."
Chars == {"a", Period}

RECURSIVE TextsOfLen(_)
TextsOfLen(n) ==
    IF n = 0 THEN {<<>>}
    ELSE {Append(t, c) : t \in TextsOfLen(n - 1), c \in Chars}

TextsUpTo(n) == UNION {TextsOfLen(k) : k \in 0..n}

RawTexts == TextsUpTo(MaxRawLen)
Questions == TextsUpTo(MaxQuestionLen)
SqlTexts == {"SELECT 1", "not sql"}

NoText == <<"#">>
NoSql == "none"
NoDb == 0

----------------------------------------------------------------------------
(* Messages and the values the collaborators return *)

HumanMessage(content) == [type |-> "human", content |-> content]
AIMessage(content) == [type |-> "ai", content |-> content]

\* The greeting of line 171, abbreviated to two characters.
Greeting == <<"H", Period>>

\* db.get_table_info() and db.run(sql) of the handle d: opaque text that
\* depends on the handle and on the statement only.
TableInfo(d) == [db |-> d]
RunResult(d, sql) == [db |-> d, sql |-> sql]
NoResult == [db |-> NoDb, sql |-> NoSql]
NoPrompt == [schema |-> TableInfo(NoDb), chat_history |-> <<>>, query |-> NoSql,
             question |-> NoText, response |-> NoResult]

NoAttempts == [synthesize |-> 0, execute |-> 0, compose |-> 0]

Last(s) == s[Len(s)]
IsPrefix(s, t) == Len(s) <= Len(t) /\ SubSeq(t, 1, Len(s)) = s
HasPeriod(t) == \E i \in 1..Len(t) : t[i] = Period
CountPeriods(t) == Cardinality({i \in 1..Len(t) : t[i] = Period})

----------------------------------------------------------------------------
(* str.split(".") and the clean-up of line 165 *)

\* Python's s.split("."): the segments between the periods, in order; a text
\* with n periods has n + 1 segments, and "" splits into [""].
RECURSIVE Split(_)
Split(s) ==
    IF ~HasPeriod(s) THEN <<s>>
    ELSE LET i == CHOOSE k \in 1..Len(s) :
                      s[k] = Period /\ \A j \in 1..(k - 1) : s[j] # Period
         IN  <<SubSeq(s, 1, i - 1)>> \o Split(SubSeq(s, i + 1, Len(s)))

\* Mutants of the clean-up.
Truncate_rsplit(raw) ==
    LET parts == Split(raw)
        n == Len(raw) - Len(parts[Len(parts)]) - 1
    IN  (IF Len(parts) = 1 THEN raw ELSE SubSeq(raw, 1, n)) \o <<Period>>
Truncate_wholeText(raw) == raw \o <<Period>>
Truncate_noPeriodAdded(raw) == Split(raw)[1]

\* cleaned_response = raw_response.split(".")[0] + "."
Truncate(raw) == Split(raw)[1] \o <<Period>>

----------------------------------------------------------------------------
(* The state after the first script run: lines 169-172 and 187-188 *)

ResetLocals ==
    /\ attempts' = NoAttempts
    /\ query' = NoSql
    /\ schemaT' = "none"
    /\ runT' = "none"
    /\ executed' = NoSql
    /\ response' = NoResult
    /\ prompt' = NoPrompt
    /\ raw_response' = NoText
    /\ cleaned_response' = NoText

Init ==
    /\ chat_history = <<AIMessage(Greeting)>>
    /\ db = NoDb
    /\ theme = "light"
    /\ user_query = <<>>
    /\ shown = {}
    /\ handles = 0
    /\ pc = "idle"
    /\ attempts = NoAttempts
    /\ query = NoSql
    /\ schemaT = "none"
    /\ runT = "none"
    /\ executed = NoSql
    /\ response = NoResult
    /\ prompt = NoPrompt
    /\ raw_response = NoText
    /\ cleaned_response = NoText

----------------------------------------------------------------------------
(* Sidebar: Connect, Toggle Theme, and a rerun with no button pressed *)

\* init_database: the new handle, or None (NoDb) when from_uri raised and
\* the except branch showed the error.
init_database(ok, n) == IF ok THEN n ELSE NoDb

Connect_keepsHistory ==
    /\ pc = "idle"
    /\ \E ok \in BOOLEAN :
         LET new == init_database(ok, handles + 1) IN
         IF new # NoDb
         THEN /\ handles < MaxConnects
              /\ handles' = handles + 1
              /\ db' = new
              /\ shown' = {"connected"}
              /\ UNCHANGED chat_history
         ELSE /\ shown' = {"init_error", "connect_failed"}
              /\ UNCHANGED <<db, chat_history, handles>>
    /\ UNCHANGED <<theme, user_query, pc, locals>>

Connect_storesNone ==
    /\ pc = "idle"
    /\ \E ok \in BOOLEAN :
         LET new == init_database(ok, handles + 1) IN
         IF new # NoDb
         THEN /\ handles < MaxConnects
              /\ handles' = handles + 1
              /\ db' = new
              /\ chat_history' = <<>>
              /\ shown' = {"connected"}
         ELSE /\ shown' = {"init_error", "connect_failed"}
              /\ db' = new
              /\ UNCHANGED <<chat_history, handles>>
    /\ UNCHANGED <<theme, user_query, pc, locals>>

\* Lines 271-279: the Connect button.
Connect ==
    /\ pc = "idle"
    /\ \E ok \in BOOLEAN :
         LET new == init_database(ok, handles + 1) IN
         IF new # NoDb
         THEN /\ handles < MaxConnects
              /\ handles' = handles + 1
              /\ db' = new
              /\ chat_history' = <<>>
              /\ shown' = {"connected"}
         ELSE /\ shown' = {"init_error", "connect_failed"}
              /\ UNCHANGED <<db, chat_history, handles>>
    /\ UNCHANGED <<theme, user_query, pc, locals>>

\* Lines 181-184 and 306: the Toggle Theme callback.
ToggleTheme ==
    /\ pc = "idle"
    /\ theme' = IF theme = "light" THEN "dark" ELSE "light"
    /\ shown' = {}
    /\ UNCHANGED <<chat_history, db, user_query, handles, pc, locals>>

Rerun_resetsHistory ==
    /\ pc = "idle"
    /\ shown' = {}
    /\ chat_history' = <<AIMessage(Greeting)>>
    /\ UNCHANGED <<db, theme, user_query, handles, pc, locals>>

\* A script run with no button pressed: lines 169-172 and 282-283 set the
\* history only when the key is absent, and it never is after Init.
Rerun ==
    /\ pc = "idle"
    /\ shown' = {}
    /\ UNCHANGED <<chat_history, db, theme, user_query, handles, pc, locals>>

----------------------------------------------------------------------------
(* The Send button: lines 298-303, and get_response, lines 131-167 *)

\* An exception leaves the script run: nothing catches it, Streamlit shows
\* it, and the frames of the turn (its local variables) are gone.
Raise ==
    /\ pc' = "idle"
    /\ shown' = {"exception"}
    /\ ResetLocals

Send_noAppend(q) ==
    /\ pc = "idle"
    /\ Len(chat_history) + 2 <= MaxHistory
    /\ user_query' = q
    /\ UNCHANGED chat_history
    /\ IF db = NoDb
       THEN Raise
       ELSE /\ pc' = "synth_schema"
            /\ shown' = {}
            /\ ResetLocals
    /\ UNCHANGED <<db, theme, handles>>

\* Lines 299-301: the human turn is appended, then st.session_state.db is
\* read (AttributeError when no Connect ever succeeded), then get_response
\* starts the chain, whose first step is get_schema of sql_chain (line 125).
Send(q) ==
    /\ pc = "idle"
    /\ Len(chat_history) + 2 <= MaxHistory
    /\ user_query' = q
    /\ chat_history' = Append(chat_history, HumanMessage(q))
    /\ IF db = NoDb
       THEN Raise
       ELSE /\ pc' = "synth_schema"
            /\ shown' = {}
            /\ ResetLocals
    /\ UNCHANGED <<db, theme, handles>>

\* Lines 121-126: db.get_table_info() returns, the synthesis prompt is
\* formatted and the completion request is issued; or the call raises.
SynthSchemaReturn ==
    /\ pc = "synth_schema"
    /\ \E ok \in BOOLEAN :
         IF ok
         THEN /\ pc' = "synthesize"
              /\ attempts' = [attempts EXCEPT !.synthesize = @ + 1]
              /\ UNCHANGED <<shown, query, schemaT, runT, executed, response,
                             prompt, raw_response, cleaned_response>>
         ELSE Raise
    /\ UNCHANGED <<chat_history, db, theme, user_query, handles>>

SynthesizeReturn_retry ==
    /\ pc = "synthesize"
    /\ \E r \in SqlTexts \cup {NoSql} :
         IF r # NoSql
         THEN /\ query' = r
              /\ schemaT' = "queued"
              /\ runT' = "queued"
              /\ pc' = "assign"
              /\ UNCHANGED <<shown, attempts, executed, response, prompt,
                             raw_response, cleaned_response>>
         ELSE IF attempts.synthesize < 3
              THEN /\ attempts' = [attempts EXCEPT !.synthesize = @ + 1]
                   /\ UNCHANGED <<pc, shown, query, schemaT, runT, executed,
                                  response, prompt, raw_response,
                                  cleaned_response>>
              ELSE Raise
    /\ UNCHANGED <<chat_history, db, theme, user_query, handles>>

\* Lines 127-128 and 150: the synthesis completion returns the SQL text
\* (query=sql_chain), and the second assign submits its two steps, schema
\* and response, to the executor; or the completion raises (r = NoSql).
SynthesizeReturn ==
    /\ pc = "synthesize"
    /\ \E r \in SqlTexts \cup {NoSql} :
         IF r # NoSql
         THEN /\ query' = r
              /\ schemaT' = "queued"
              /\ runT' = "queued"
              /\ pc' = "assign"
              /\ UNCHANGED <<shown, attempts, executed, response, prompt,
                             raw_response, cleaned_response>>
         ELSE Raise
    /\ UNCHANGED <<chat_history, db, theme, user_query, handles>>

\* Line 151: the worker of schema=lambda _: db.get_table_info() starts.
SchemaStart ==
    /\ pc = "assign"
    /\ schemaT = "queued"
    /\ schemaT' = "running"
    /\ UNCHANGED <<session, pc, attempts, query, runT, executed, response,
                   prompt, raw_response, cleaned_response>>

\* Line 151: db.get_table_info() returns or raises in its worker.
SchemaReturn ==
    /\ pc = "assign"
    /\ schemaT = "running"
    /\ \E ok \in BOOLEAN : schemaT' = IF ok THEN "done" ELSE "failed"
    /\ UNCHANGED <<session, pc, attempts, query, runT, executed, response,
                   prompt, raw_response, cleaned_response>>

RunStart_otherSql ==
    /\ pc = "assign"
    /\ runT = "queued"
    /\ runT' = "running"
    /\ \E sql \in SqlTexts : executed' = sql
    /\ attempts' = [attempts EXCEPT !.execute = @ + 1]
    /\ UNCHANGED <<session, pc, query, schemaT, response, prompt,
                   raw_response, cleaned_response>>

\* Line 152: the worker of response=lambda vars: db.run(vars["query"])
\* starts and hands the synthesized text to the database.
RunStart ==
    /\ pc = "assign"
    /\ runT = "queued"
    /\ runT' = "running"
    /\ executed' = query
    /\ attempts' = [attempts EXCEPT !.execute = @ + 1]
    /\ UNCHANGED <<session, pc, query, schemaT, response, prompt,
                   raw_response, cleaned_response>>

\* Line 152: db.run returns the result, or raises in its worker.
RunReturn ==
    /\ pc = "assign"
    /\ runT = "running"
    /\ \E ok \in BOOLEAN :
         IF ok
         THEN /\ runT' = "done"
              /\ response' = RunResult(db, executed)
         ELSE /\ runT' = "failed"
              /\ UNCHANGED response
    /\ UNCHANGED <<session, pc, attempts, query, schemaT, executed, prompt,
                   raw_response, cleaned_response>>

Finished(t) == t \in {"done", "failed"}

Join_noWaitForRun ==
    /\ pc = "assign"
    /\ Finished(schemaT)
    /\ IF schemaT = "done" /\ runT # "failed"
       THEN /\ prompt' = [schema |-> TableInfo(db),
                          chat_history |-> chat_history,
                          query |-> query,
                          question |-> user_query,
                          response |-> response]
            /\ attempts' = [attempts EXCEPT !.compose = @ + 1]
            /\ pc' = "compose"
            /\ UNCHANGED <<shown, query, schemaT, runT, executed, response,
                           raw_response, cleaned_response>>
       ELSE Raise
    /\ UNCHANGED <<chat_history, db, theme, user_query, handles>>

\* Lines 150-155: the assign collects both workers' results (the executor
\* is left only when both have finished); with both results the composition
\* prompt is formatted and the completion request is issued, and with a
\* failed worker its exception is raised.
Join ==
    /\ pc = "assign"
    /\ Finished(schemaT)
    /\ Finished(runT)
    /\ IF schemaT = "done" /\ runT = "done"
       THEN /\ prompt' = [schema |-> TableInfo(db),
                          chat_history |-> chat_history,
                          query |-> query,
                          question |-> user_query,
                          response |-> response]
            /\ attempts' = [attempts EXCEPT !.compose = @ + 1]
            /\ pc' = "compose"
            /\ UNCHANGED <<shown, query, schemaT, runT, executed, response,
                           raw_response, cleaned_response>>
       ELSE Raise
    /\ UNCHANGED <<chat_history, db, theme, user_query, handles>>

\* Lines 155-165: the composition completion returns raw_response, which is
\* cleaned up; or the completion raises (no raw text).
ComposeReturn ==
    /\ pc = "compose"
    /\ \E ok \in BOOLEAN :
         IF ok
         THEN /\ \E raw \in RawTexts :
                   /\ raw_response' = raw
                   /\ cleaned_response' = Truncate(raw)
              /\ pc' = "respond"
              /\ UNCHANGED <<shown, attempts, query, schemaT, runT, executed,
                             response, prompt>>
         ELSE Raise
    /\ UNCHANGED <<chat_history, db, theme, user_query, handles>>

\* Lines 167 and 302-303: get_response returns, the assistant turn is
\* appended and the script reruns.
SendFinish ==
    /\ pc = "respond"
    /\ chat_history' = Append(chat_history, AIMessage(cleaned_response))
    /\ pc' = "idle"
    /\ shown' = {}
    /\ ResetLocals
    /\ UNCHANGED <<db, theme, user_query, handles>>

----------------------------------------------------------------------------

Next ==
    \/ Connect
    \/ ToggleTheme
    \/ Rerun
    \/ \E q \in Questions : Send(q)
    \/ SynthSchemaReturn
    \/ SynthesizeReturn
    \/ SchemaStart
    \/ SchemaReturn
    \/ RunStart
    \/ RunReturn
    \/ Join
    \/ ComposeReturn
    \/ SendFinish

Spec == Init /\ [][Next]_vars

----------------------------------------------------------------------------
(* Observations used by the properties *)

\* The steps of the current turn whose call has been issued and has not yet
\* returned.
InProgress ==
    (IF pc = "synth_schema" THEN {"synth_schema"} ELSE {})
    \cup (IF pc = "synthesize" THEN {"synthesize"} ELSE {})
    \cup (IF schemaT = "running" THEN {"schema"} ELSE {})
    \cup (IF runT = "running" THEN {"execute"} ELSE {})
    \cup (IF pc = "compose" THEN {"compose"} ELSE {})

\* The period that ends the first sentence of a text that has one.
FirstPeriod(t) == CHOOSE i \in 1..Len(t) :
                      t[i] = Period /\ \A j \in 1..(i - 1) : t[j] # Period

TypeOK ==
    /\ db \in 0..handles
    /\ theme \in {"light", "dark"}
    /\ user_query \in Questions
    /\ pc \in {"idle", "synth_schema", "synthesize", "assign", "compose",
               "respond"}
    /\ schemaT \in {"none", "queued", "running", "done", "failed"}
    /\ runT \in {"none", "queued", "running", "done", "failed"}
    /\ \A i \in 1..Len(chat_history) : chat_history[i].type \in {"human", "ai"}

----------------------------------------------------------------------------
(* C1 *)

\* C1: every Send extends the history by exactly two entries, the human
\* turn holding the question and then the assistant turn holding the
\* composed answer.  Step by step: the step that starts a turn appends the
\* human turn, the steps inside a turn leave the history alone, and the step
\* that ends a turn appends the assistant turn with the cleaned-up answer (a
\* turn that starts and ends in one step appends both).
C1_SendAppendsHumanThenAssistant ==
    [][ /\ (pc = "idle" /\ pc' # "idle") =>
              chat_history' = Append(chat_history, HumanMessage(user_query'))
        /\ (pc # "idle" /\ pc' # "idle") => chat_history' = chat_history
        /\ (pc # "idle" /\ pc' = "idle") =>
              /\ cleaned_response \in TextsUpTo(MaxRawLen + 1)
              /\ chat_history' =
                     Append(chat_history, AIMessage(cleaned_response))
        /\ (pc = "idle" /\ pc' = "idle" /\ "exception" \in shown') =>
              /\ Len(chat_history') = Len(chat_history) + 2
              /\ SubSeq(chat_history', 1, Len(chat_history)) = chat_history
              /\ chat_history'[Len(chat_history) + 1] =
                     HumanMessage(user_query')
              /\ chat_history'[Len(chat_history) + 2].type = "ai"
      ]_vars

----------------------------------------------------------------------------
(* C2 *)

\* C2: the database handle changes only in a step taken outside any turn
\* that installs a new handle and empties the history in the same step, the
\* history is never emptied without the handle being replaced, and what a
\* turn has read (schema, result, history in the prompt) belongs to the
\* session's current handle and current history.
C2_ConnectReplacesHandleAndHistoryTogether ==
    /\ [][ (db' # db) =>
              /\ pc = "idle" /\ pc' = "idle"
              /\ db' # NoDb
              /\ chat_history' = <<>> ]_vars
    /\ [][ (chat_history # <<>> /\ chat_history' = <<>>) => db' # db ]_vars
    /\ [](pc \in {"compose", "respond"} =>
              /\ prompt.schema = TableInfo(db)
              /\ prompt.response.db = db
              /\ prompt.chat_history = chat_history)

\* A turn that runs on the second handle and sees only its own question.
C2_Witness ==
    /\ db = 2
    /\ pc = "compose"
    /\ prompt.chat_history = <<HumanMessage(user_query)>>

----------------------------------------------------------------------------
(* C3 *)

\* The order of the three steps: the database is handed the synthesized text
\* and only once synthesis has returned, and the composition request is
\* issued only once the execution has returned its result.
C3_Order ==
    /\ runT \in {"running", "done", "failed"} =>
           /\ query \in SqlTexts
           /\ executed = query
           /\ attempts.synthesize = 1
           /\ pc # "synthesize"
    /\ runT \in {"none", "queued"} => executed = NoSql /\ response = NoResult
    /\ pc \in {"compose", "respond"} =>
           /\ runT = "done"
           /\ schemaT = "done"
           /\ response = RunResult(db, query)
           /\ prompt.response = response
           /\ prompt.query = query

----------------------------------------------------------------------------
(* C4 *)

\* C4 as stated: after a failed Connect the error is shown and the session
\* has no database handle.
C4_FailedConnectLeavesNoDatabase ==
    "connect_failed" \in shown => ("init_error" \in shown /\ db = NoDb)

\* C4 amended: a failed Connect shows the error and leaves the handle and
\* the history as they were; and in a session without a handle every Send
\* fails at once, leaving the handle absent.
C4_FailedConnectKeepsSession ==
    /\ [][ "connect_failed" \in shown' =>
              /\ "init_error" \in shown'
              /\ pc' = "idle"
              /\ UNCHANGED <<db, chat_history, handles>> ]_vars
    /\ [][ (pc = "idle" /\ db = NoDb
             /\ Len(chat_history') = Len(chat_history) + 1) =>
              /\ "exception" \in shown'
              /\ pc' = "idle"
              /\ db' = NoDb ]_vars

\* A failed Connect in a session that had a connection and a conversation.
C4_Witness ==
    /\ "connect_failed" \in shown
    /\ db # NoDb
    /\ Len(chat_history) >= 2

----------------------------------------------------------------------------
(* C5 *)

\* C5: a step that installs a new handle (a successful Connect) empties the
\* history, and every other step leaves the old history as a prefix of the
\* new one.
C5_HistoryAppendOnly ==
    [][ IF db' # db
        THEN chat_history' = <<>>
        ELSE IsPrefix(chat_history, chat_history') ]_vars

\* A conversation that outlived a failed turn, a theme toggle and a failed
\* Connect.
C5_Witness ==
    /\ theme = "dark"
    /\ "connect_failed" \in shown
    /\ Len(chat_history) >= 3
    /\ chat_history[Len(chat_history)].type = "human"
    /\ chat_history[Len(chat_history) - 1].type = "human"

----------------------------------------------------------------------------
(* C6, C7, C8: the clean-up of the raw response *)

\* C6: when the raw response has a period, the answer is the raw response
\* up to and including its first period.
C6_AnswerIsTextThroughFirstPeriod ==
    (pc = "respond" /\ HasPeriod(raw_response)) =>
        cleaned_response = SubSeq(raw_response, 1, FirstPeriod(raw_response))

\* A raw response with text before its first period and a second period.
C6_Witness ==
    /\ pc = "respond"
    /\ raw_response = <<"a", Period>> \o <<Period>>
    /\ cleaned_response = <<"a", Period>>

\* C7: cleaning up the answer of a raw response that has a period gives the
\* answer back.
C7_TruncationIdempotent ==
    (pc = "respond" /\ HasPeriod(raw_response)) =>
        Truncate(cleaned_response) = cleaned_response

\* A raw response whose first period is not its last character.
C7_Witness ==
    /\ pc = "respond"
    /\ raw_response = <<Period, "a">>
    /\ Truncate(cleaned_response) = <<Period>>

\* C8: a raw response without a period gives the whole response followed by
\* one period; and every answer is non-empty and has exactly one period,
\* its last character.
C8_NoPeriodFallbackAndAnswerShape ==
    pc = "respond" =>
        /\ ~HasPeriod(raw_response) =>
               cleaned_response = raw_response \o <<Period>>
        /\ cleaned_response # <<>>
        /\ CountPeriods(cleaned_response) = 1
        /\ Last(cleaned_response) = Period

\* The empty raw response.
C8_Witness ==
    /\ pc = "respond"
    /\ raw_response = <<>>
    /\ cleaned_response = <<Period>>

----------------------------------------------------------------------------
(* C9 *)

----------------------------------------------------------------------------
(* C10 *)

\* C10: the history formatted into the composition prompt is the session's
\* history, and its last entry is the human turn of the question being
\* answered (so no assistant turn for that question is in it).
C10_PromptHistoryEndsWithQuestion ==
    pc \in {"compose", "respond"} =>
        /\ prompt.question = user_query
        /\ prompt.chat_history # <<>>
        /\ Last(prompt.chat_history) = HumanMessage(prompt.question)
        /\ prompt.chat_history = chat_history

\* The prompt of a second question, with the first exchange before it.
C10_Witness ==
    /\ pc = "compose"
    /\ Len(prompt.chat_history) = 3
    /\ prompt.chat_history[1].type = "human"
    /\ prompt.chat_history[2].type = "ai"
    /\ prompt.chat_history[3] = HumanMessage(user_query)

====
